---- MODULE Spec2Model ----
(***************************************************************************)
(* Model of src/app.js: the kit search page.  The fuzzy-search helpers     *)
(* (normalize, singularize, tokenize, levenshtein, bestWindowSimilarity,   *)
(* similarityThresholdFor, matchTokenToBlock) are operators; the page      *)
(* state (state.kits, state.tokens, the search box, the rendered grid and  *)
(* the empty-state message) is the state of the machine, with one action   *)
(* per event handler bound in bindUI.                                      *)
(*                                                                         *)
(* A string is a sequence of one-character strings.  A JavaScript number   *)
(* is the double the code computes, as the record [num, den, off]: the     *)
(* fraction num/den in lowest terms that exact arithmetic gives and the    *)
(* place of the double among the doubles around that fraction, counted     *)
(* from the last one not above it.  Division, subtraction and addition     *)
(* round as IEEE-754 does, to the nearest double, ties to even.            *)
(***************************************************************************)
EXTENDS Integers, Sequences, FiniteSets, TLC

VARIABLES kits, searchValue, tokens, grid, emptyState, call

vars == <<kits, searchValue, tokens, grid, emptyState, call>>

(***************************************************************************)
(* Bounds of the model.                                                    *)
(***************************************************************************)
MaxKits == 2
MaxWords == 2
MaxSepLen == 2
MaxStrLen == 3
MaxTextLen == 5
MaxTokenLen == 4
MaxThresholdLen == 12

(***************************************************************************)
(* Small arithmetic.  Only({e(x) : x \in {v}}) is e with x bound to the    *)
(* value of v: a local constant of the code, computed once.                *)
(***************************************************************************)
Only(S) == CHOOSE x \in S : TRUE

Min(a, b) == IF a <= b THEN a ELSE b

Max(a, b) == IF a >= b THEN a ELSE b

RECURSIVE GCD(_, _)
GCD(a, b) == IF b = 0 THEN a ELSE GCD(b, a % b)

\* 2^e modulo m
RECURSIVE PowMod(_, _)
PowMod(e, m) == IF e = 0 THEN 1 % m ELSE (2 * PowMod(e - 1, m)) % m

RECURSIVE Pow2(_)
Pow2(e) == IF e = 0 THEN 1 ELSE 2 * Pow2(e - 1)

\* The doubles around n/d > 0 are the multiples of 2^-s, s == Scale(n, d):
\* 2^52 <= (n/d) * 2^s < 2^53.
RECURSIVE Scale(_, _)
Scale(n, d) ==
    IF n < d THEN Scale(2 * n, d) + 1
    ELSE IF n >= 2 * d THEN Scale(n, 2 * d) - 1
    ELSE 52

\* (num/den) * 2^Scale(num, den) is an integer and a part below 1:
\* Below(x) is that part times den, Odd(x) says whether the integer is odd.
Below(x) == (x.num * PowMod(Scale(x.num, x.den), x.den)) % x.den

Odd(x) ==
    (x.num * PowMod(Scale(x.num, x.den), 2 * x.den)) % (2 * x.den) >= x.den

Zero == [num |-> 0, den |-> 1, off |-> 0]

One == [num |-> 1, den |-> 1, off |-> 0]

\* The double that n/d + (gn/gd - below) * 2^-s becomes, below being the
\* part of (n/d) * 2^s under its integer: rounded to the nearest multiple
\* of 2^-s, to the even one from half way.  n/d is 0 only when the
\* operation is exact.
Rounded(n, d, gn, gd) ==
    IF n = 0 THEN Zero
    ELSE LET c == GCD(n, d)
             f == [num |-> n \div c, den |-> d \div c, off |-> 0]
             fl == gn \div gd
             twice == 2 * (gn - fl * gd)
             up == \/ twice > gd
                   \/ twice = gd /\ (Odd(f) <=> fl % 2 = 0)
         IN  [f EXCEPT !.off = IF up THEN fl + 1 ELSE fl]

\* What the double x is above its fraction, in units of 2^-s, as <<n, d>>.
ErrorOf(x, s) ==
    LET sx == Scale(x.num, x.den)
        n == x.off * x.den - Below(x)
    IN  IF s >= sx THEN <<n * Pow2(s - sx), x.den>>
        ELSE <<n, x.den * Pow2(sx - s)>>

\* n / d
Quotient(n, d) ==
    IF n = 0 THEN Zero
    ELSE LET c == GCD(n, d)
             f == [num |-> n \div c, den |-> d \div c, off |-> 0]
         IN  Rounded(n, d, Below(f), f.den)

\* x + y
Plus(x, y) ==
    IF x = Zero THEN y
    ELSE IF y = Zero THEN x
    ELSE LET n == x.num * y.den + y.num * x.den
             d == x.den * y.den
             c == GCD(n, d)
             f == [num |-> n \div c, den |-> d \div c, off |-> 0]
             s == Scale(n, d)
             ex == ErrorOf(x, s)
             ey == ErrorOf(y, s)
             gd == f.den * ex[2] * ey[2]
             gn == Below(f) * ex[2] * ey[2] + ex[1] * f.den * ey[2]
                       + ey[1] * f.den * ex[2]
         IN  Rounded(n, d, gn, gd)

\* 1 - y, for a quotient y <= 1
OneMinus(y) ==
    IF y = Zero THEN One
    ELSE IF y = One THEN Zero
    ELSE LET n == y.den - y.num
             d == y.den
             f == [num |-> n, den |-> d, off |-> 0]
             ey == ErrorOf(y, Scale(n, d))
         IN  Rounded(n, d, Below(f) * ey[2] - ey[1] * d, d * ey[2])

\* x > y: as the fractions compare, and for one fraction as the doubles
\* around it do.
GT(x, y) ==
    \/ x.num * y.den > y.num * x.den
    \/ x.num * y.den = y.num * x.den /\ x.off > y.off

\* x >= y
GE(x, y) == ~GT(y, x)

(***************************************************************************)
(* String primitives of JavaScript used by the helpers.                    *)
(***************************************************************************)
Slice(s, from, to) == SubSeq(s, from + 1, Min(to, Len(s)))

EndsWith(s, suf) ==
    /\ Len(suf) <= Len(s)
    /\ SubSeq(s, Len(s) - Len(suf) + 1, Len(s)) = suf

StartsWith(s, pre) ==
    /\ Len(pre) <= Len(s)
    /\ SubSeq(s, 1, Len(pre)) = pre

DropLast(s, k) == SubSeq(s, 1, Len(s) - k)

\* Mutation of IndexOf: the last occurrence instead of the first.
LastIndexOf(t, q) ==
    LET hits == {i \in 0..(Len(t) - Len(q)) : SubSeq(t, i + 1, i + Len(q)) = q}
    IN  IF hits = {} THEN -1 ELSE CHOOSE i \in hits : \A j \in hits : i >= j

IndexOf(t, q) ==
    LET hits == {i \in 0..(Len(t) - Len(q)) : SubSeq(t, i + 1, i + Len(q)) = q}
    IN  IF hits = {} THEN -1 ELSE CHOOSE i \in hits : \A j \in hits : i <= j

LowerChar(c) ==
    CASE c = "A" -> "a"
      [] c = "B" -> "b"
      [] c = "E" -> "e"
      [] c = "S" -> "s"
      [] OTHER -> c

ToLowerCase(s) == [i \in 1..Len(s) |-> LowerChar(s[i])]

IsSpace(c) == c = " "

RECURSIVE CollapseSpaces(_)
CollapseSpaces(s) ==
    IF Len(s) = 0 THEN <<>>
    ELSE IF IsSpace(s[1]) /\ Len(s) > 1 /\ IsSpace(s[2]) THEN CollapseSpaces(Tail(s))
    ELSE <<s[1]>> \o CollapseSpaces(Tail(s))

RECURSIVE TrimLeft(_)
TrimLeft(s) == IF Len(s) > 0 /\ IsSpace(s[1]) THEN TrimLeft(Tail(s)) ELSE s

RECURSIVE TrimRight(_)
TrimRight(s) ==
    IF Len(s) > 0 /\ IsSpace(s[Len(s)]) THEN TrimRight(DropLast(s, 1)) ELSE s

Trim(s) == TrimRight(TrimLeft(s))

\* s.split(sep-class run): the pieces between maximal runs of separators,
\* with the empty pieces JavaScript yields at either end.
RECURSIVE SplitRuns(_, _, _, _)
SplitRuns(s, seps, cur, inRun) ==
    IF Len(s) = 0 THEN <<cur>>
    ELSE IF s[1] \in seps
         THEN IF inRun THEN SplitRuns(Tail(s), seps, cur, TRUE)
              ELSE <<cur>> \o SplitRuns(Tail(s), seps, <<>>, TRUE)
         ELSE SplitRuns(Tail(s), seps, Append(cur, s[1]), FALSE)

\* s.split(' '): one piece per separator character.
RECURSIVE SplitChar(_, _, _)
SplitChar(s, sep, cur) ==
    IF Len(s) = 0 THEN <<cur>>
    ELSE IF s[1] = sep THEN <<cur>> \o SplitChar(Tail(s), sep, <<>>)
    ELSE SplitChar(Tail(s), sep, Append(cur, s[1]))

\* .filter(Boolean) on an array of strings: the empty strings are dropped.
RECURSIVE FilterBoolean(_)
FilterBoolean(seq) ==
    IF Len(seq) = 0 THEN <<>>
    ELSE (IF Len(seq[1]) > 0 THEN <<seq[1]>> ELSE <<>>) \o FilterBoolean(Tail(seq))

(***************************************************************************)
(* Fuzzy search helpers.                                                   *)
(***************************************************************************)
normalize(str) == Trim(CollapseSpaces(ToLowerCase(str)))

singularize(s) ==
    IF EndsWith(s, <<"i", "e", "s">>) /\ Len(s) > 3 THEN DropLast(s, 3) \o <<"y">>
    ELSE IF EndsWith(s, <<"s", "s", "e", "s">>) THEN DropLast(s, 2)
    ELSE IF \/ EndsWith(s, <<"x", "e", "s">>)
            \/ EndsWith(s, <<"c", "h", "e", "s">>)
            \/ EndsWith(s, <<"s", "h", "e", "s">>) THEN DropLast(s, 2)
    ELSE IF EndsWith(s, <<"e", "s">>) /\ Len(s) > 3 THEN DropLast(s, 2)
    ELSE IF EndsWith(s, <<"s">>) /\ Len(s) > 3 THEN DropLast(s, 1)
    ELSE s

\* Mutation of tokenize: without .filter(Boolean).
tokenizeUnfiltered(q) ==
    LET pieces == SplitRuns(ToLowerCase(q), {",", " "}, <<>>, FALSE)
    IN  [i \in 1..Len(pieces) |-> singularize(normalize(pieces[i]))]

tokenize(q) ==
    LET pieces == SplitRuns(ToLowerCase(q), {",", " "}, <<>>, FALSE)
        mapped == [i \in 1..Len(pieces) |-> singularize(normalize(pieces[i]))]
    IN  FilterBoolean(mapped)

Min3(a, b, c) == Min(a, Min(b, c))

\* Mutation of LevInner: the deletion prev[j] + 1 is left out of the minimum.
RECURSIVE LevInnerNoDeletion(_, _, _, _, _)
LevInnerNoDeletion(curr, prev, ca, b, j) ==
    IF j > Len(b) THEN curr
    ELSE LET cost == IF ca = b[j] THEN 0 ELSE 1
             v == Min(curr[j] + 1, prev[j] + cost)
         IN  LevInnerNoDeletion(Append(curr, v), prev, ca, b, j + 1)

\* The inner loop of levenshtein: row i from the previous row.  Index j of
\* the JavaScript arrays is index j + 1 of the sequences.
RECURSIVE LevInner(_, _, _, _, _)
LevInner(curr, prev, ca, b, j) ==
    IF j > Len(b) THEN curr
    ELSE LET cost == IF ca = b[j] THEN 0 ELSE 1
             v == Min3(curr[j] + 1, prev[j + 1] + 1, prev[j] + cost)
         IN  LevInner(Append(curr, v), prev, ca, b, j + 1)

RECURSIVE LevOuter(_, _, _, _)
LevOuter(prev, a, b, i) ==
    IF i > Len(a) THEN prev
    ELSE LevOuter(LevInner(<<i>>, prev, a[i], b, 1), a, b, i + 1)

levenshtein(a, b) ==
    LET m == Len(a)
        n == Len(b)
    IN  IF m = 0 THEN n
        ELSE IF n = 0 THEN m
        ELSE LevOuter([j \in 1..(n + 1) |-> j - 1], a, b, 1)[n + 1]

RECURSIVE WindowLoop(_, _, _, _)
WindowLoop(t, q, best, s) ==
    LET w == Len(q) IN
    IF s > Max(0, Len(t) - w) THEN best
    ELSE LET sub == Slice(t, s, s + w)
             mx == Max(Len(sub), Len(q))
         IN  Only({ LET sim == OneMinus(Quotient(dist, mx))
                        b2 == IF GT(sim, best.score)
                              THEN [score |-> sim, start |-> s, end |-> s + w,
                                    exact |-> FALSE]
                              ELSE best
                    IN  IF b2.score = One THEN b2 ELSE WindowLoop(t, q, b2, s + 1)
                    : dist \in {levenshtein(sub, q)} })

bestWindowSimilarity(text, token) ==
    LET t == singularize(normalize(text))
        q == singularize(normalize(token))
        idx == IndexOf(t, q)
        prefixScore == IF StartsWith(t, q) \/ StartsWith(q, t)
                       THEN Quotient(Min(Len(t), Len(q)), Max(Len(t), Len(q)))
                       ELSE Zero
        best0 == [score |-> prefixScore, start |-> -1, end |-> -1, exact |-> FALSE]
    IN  IF Len(q) = 0 THEN [score |-> Zero, start |-> -1, end |-> -1, exact |-> FALSE]
        ELSE IF idx # -1
             THEN [score |-> One, start |-> idx, end |-> idx + Len(q), exact |-> TRUE]
        ELSE IF Len(t) = 0 THEN best0
        ELSE Only({ LET mx == Max(Len(t), Len(q))
                        wholeSim == OneMinus(Quotient(wholeDist, mx))
                    IN  IF GT(wholeSim, best1.score)
                        THEN [score |-> wholeSim, start |-> -1, end |-> -1,
                              exact |-> FALSE]
                        ELSE best1
                    : best1 \in {WindowLoop(t, q, best0, 0)},
                      wholeDist \in {levenshtein(t, q)} })

\* Mutation of similarityThresholdFor: len < 5 where the code has len <= 5.
similarityThresholdBelow5(len) ==
    IF len <= 2 THEN Quotient(100, 100)
    ELSE IF len = 3 THEN Quotient(85, 100)
    ELSE IF len < 5 THEN Quotient(78, 100)
    ELSE IF len <= 8 THEN Quotient(72, 100)
    ELSE Quotient(68, 100)

\* The literals 1.0, 0.85, 0.78, 0.72 and 0.68.
similarityThresholdFor(len) ==
    IF len <= 2 THEN Quotient(100, 100)
    ELSE IF len = 3 THEN Quotient(85, 100)
    ELSE IF len <= 5 THEN Quotient(78, 100)
    ELSE IF len <= 8 THEN Quotient(72, 100)
    ELSE Quotient(68, 100)

WithTarget(m, target, i) ==
    [score |-> m.score, start |-> m.start, end |-> m.end, exact |-> m.exact,
     target |-> target, inWordIndex |-> i]

RECURSIVE WordLoop(_, _, _, _)
WordLoop(words, token, best, i) ==
    IF i >= Len(words) THEN best
    ELSE LET w == words[i + 1]
         IN  Only({ WordLoop(words, token,
                             IF GT(res.score, best.score)
                             THEN WithTarget(res, w, i) ELSE best,
                             i + 1)
                    : res \in {bestWindowSimilarity(w, token)} })

matchTokenToBlock(token, block) ==
    LET whole == singularize(normalize(block))
        words == SplitChar(whole, " ", <<>>)
        best0 == [score |-> Zero, start |-> -1, end |-> -1, exact |-> FALSE,
                  target |-> whole, inWordIndex |-> -1]
    IN  Only({ WordLoop(words, token,
                        IF GT(bw.score, best0.score)
                        THEN WithTarget(bw, whole, -1) ELSE best0,
                        0)
               : bw \in {bestWindowSimilarity(block, token)} })

(***************************************************************************)
(* String.prototype.localeCompare on names made of unaccented Latin        *)
(* letters: the letters decide (primary strength); between names with the  *)
(* same letters the first difference of case decides, lower case first     *)
(* (tertiary strength).  sensitivity "base" stops after the letters.       *)
(***************************************************************************)
IsUpper(c) == LowerChar(c) # c

LetterRank(c) ==
    CASE LowerChar(c) = "a" -> 1
      [] LowerChar(c) = "b" -> 2
      [] LowerChar(c) = "e" -> 3
      [] LowerChar(c) = "s" -> 4
      [] OTHER -> 0

RECURSIVE CompareKeys(_, _)
CompareKeys(u, v) ==
    IF Len(u) = 0 THEN (IF Len(v) = 0 THEN 0 ELSE -1)
    ELSE IF Len(v) = 0 THEN 1
    ELSE IF u[1] < v[1] THEN -1
    ELSE IF u[1] > v[1] THEN 1
    ELSE CompareKeys(Tail(u), Tail(v))

PrimaryKey(s) == [i \in 1..Len(s) |-> LetterRank(s[i])]

TertiaryKey(s) == [i \in 1..Len(s) |-> IF IsUpper(s[i]) THEN 1 ELSE 0]

localeCompare(x, y, sensitivity) ==
    LET p == CompareKeys(PrimaryKey(x), PrimaryKey(y))
    IN  IF p # 0 \/ sensitivity = "base" THEN p
        ELSE CompareKeys(TertiaryKey(x), TertiaryKey(y))

(***************************************************************************)
(* Array.prototype.sort is stable: an element goes after every element     *)
(* already placed that does not compare greater than it.                   *)
(***************************************************************************)
\* The sign of x - y.
Sign(x, y) ==
    IF GT(x, y) THEN 1 ELSE IF GT(y, x) THEN -1 ELSE 0

\* (a, b) => b.score - a.score
CompareMatched(a, b) == Sign(b.score, a.score)

\* Mutation of CompareResults: a.kitScore - b.kitScore, the lowest score first.
CompareResultsAscending(a, b) ==
    IF Sign(a.kitScore, b.kitScore) # 0 THEN Sign(a.kitScore, b.kitScore)
    ELSE IF b.hitsCount - a.hitsCount # 0 THEN b.hitsCount - a.hitsCount
    ELSE localeCompare(a.kit.name, b.kit.name, "variant")

\* Mutation of CompareResults: without the comparison of the names.
CompareResultsWithoutName(a, b) ==
    IF Sign(b.kitScore, a.kitScore) # 0 THEN Sign(b.kitScore, a.kitScore)
    ELSE b.hitsCount - a.hitsCount

\* (a, b) => b.kitScore - a.kitScore || b.hitsCount - a.hitsCount
\*           || a.kit.name.localeCompare(b.kit.name)
CompareResults(a, b) ==
    IF Sign(b.kitScore, a.kitScore) # 0 THEN Sign(b.kitScore, a.kitScore)
    ELSE IF b.hitsCount - a.hitsCount # 0 THEN b.hitsCount - a.hitsCount
    ELSE localeCompare(a.kit.name, b.kit.name, "variant")

\* (a, b) => a.name.localeCompare(b.name, undefined, { sensitivity: 'base' })
CompareKits(a, b) == localeCompare(a.name, b.name, "base")

RECURSIVE InsertMatched(_, _)
InsertMatched(sorted, x) ==
    IF Len(sorted) = 0 THEN <<x>>
    ELSE IF CompareMatched(sorted[1], x) <= 0
         THEN <<sorted[1]>> \o InsertMatched(Tail(sorted), x)
         ELSE <<x>> \o sorted

RECURSIVE SortMatched(_, _)
SortMatched(sorted, rest) ==
    IF Len(rest) = 0 THEN sorted
    ELSE SortMatched(InsertMatched(sorted, rest[1]), Tail(rest))

RECURSIVE InsertResult(_, _)
InsertResult(sorted, x) ==
    IF Len(sorted) = 0 THEN <<x>>
    ELSE IF CompareResults(sorted[1], x) <= 0
         THEN <<sorted[1]>> \o InsertResult(Tail(sorted), x)
         ELSE <<x>> \o sorted

RECURSIVE SortResults(_, _)
SortResults(sorted, rest) ==
    IF Len(rest) = 0 THEN sorted
    ELSE SortResults(InsertResult(sorted, rest[1]), Tail(rest))

RECURSIVE InsertKit(_, _)
InsertKit(sorted, x) ==
    IF Len(sorted) = 0 THEN <<x>>
    ELSE IF CompareKits(sorted[1], x) <= 0
         THEN <<sorted[1]>> \o InsertKit(Tail(sorted), x)
         ELSE <<x>> \o sorted

RECURSIVE SortKits(_, _)
SortKits(sorted, rest) ==
    IF Len(rest) = 0 THEN sorted
    ELSE SortKits(InsertKit(sorted, rest[1]), Tail(rest))

(***************************************************************************)
(* Inputs: the catalog files the page may fetch and the texts a user may   *)
(* leave in the search box.                                                *)
(***************************************************************************)
Strings(alphabet, n) == UNION {[1..k -> alphabet] : k \in 0..n}

KitPool ==
    { [name |-> <<"a", "b">>, blocks |-> << <<"a", "s", "a", "s", "a">> >>],
      [name |-> <<"A", "b">>,
       blocks |-> << <<"a", "s", "s">>, <<"a", " ", "s">> >>],
      [name |-> <<"a", "b">>,
       blocks |-> << <<"a", "s", "a", "s", "a">>, <<"a", "s", "s">> >>],
      [name |-> <<"b">>, blocks |-> << >>],
      [name |-> <<"B">>, blocks |-> << <<"a", "s", "a", "s", "a">> >>] }

\* The sequences of at most n different elements of S.
Lists(S, n) ==
    {f \in UNION {[1..k -> S] : k \in 0..n} :
        \A i \in DOMAIN f, j \in DOMAIN f : f[i] = f[j] => i = j}

\* The kits of a kits.txt, in the order of its lines.
KitFiles == Lists(KitPool, MaxKits)

Words ==
    { <<"S", "A">>, <<"a", "s", "a", "a", "a">>,
      <<"a", "s", "s", "s", "s", "s">> }

RECURSIVE JoinWords(_)
JoinWords(ws) ==
    IF Len(ws) = 0 THEN <<>>
    ELSE IF Len(ws) = 1 THEN ws[1]
    ELSE ws[1] \o <<",", " ">> \o JoinWords(Tail(ws))

Queries ==
    Strings({",", " "}, MaxSepLen) \cup {JoinWords(ws) : ws \in Lists(Words, MaxWords)}

\* matchTokenToBlock tabulated over the tokens and the blocks of the inputs
\* above, so that render looks a match up instead of computing it again.
matches ==
    [tok \in {singularize(normalize(tokRaw)) :
                 tokRaw \in UNION {{tokenize(q)[i] : i \in 1..Len(tokenize(q))} :
                                      q \in Queries}},
     block \in {b : b \in UNION {{k.blocks[i] : i \in 1..Len(k.blocks)} :
                                    k \in KitPool}}
        |-> matchTokenToBlock(tok, block)]

(***************************************************************************)
(* render.                                                                 *)
(***************************************************************************)
NoBest == [score |-> Zero, token |-> <<>>, match |-> "null"]

\* Mutation of TokenLoop: an admitted token replaces the best one whatever
\* its score.
RECURSIVE TokenLoopLastAdmitted(_, _, _)
TokenLoopLastAdmitted(toks, block, bestForBlock) ==
    IF Len(toks) = 0 THEN bestForBlock
    ELSE LET tok == singularize(normalize(toks[1]))
             th == similarityThresholdFor(Len(tok))
         IN  Only({ TokenLoopLastAdmitted(Tail(toks), block,
                        IF GE(match.score, th)
                        THEN [score |-> match.score, token |-> tok, match |-> match,
                              originalBlock |-> block]
                        ELSE bestForBlock)
                    : match \in {matches[tok, block]} })

\* for (const tokRaw of tokens) { ... }
RECURSIVE TokenLoop(_, _, _)
TokenLoop(toks, block, bestForBlock) ==
    IF Len(toks) = 0 THEN bestForBlock
    ELSE LET tok == singularize(normalize(toks[1]))
             th == similarityThresholdFor(Len(tok))
         IN  Only({ TokenLoop(Tail(toks), block,
                        IF GE(match.score, th)
                           /\ GT(match.score, bestForBlock.score)
                        THEN [score |-> match.score, token |-> tok, match |-> match,
                              originalBlock |-> block]
                        ELSE bestForBlock)
                    : match \in {matches[tok, block]} })

\* for (const block of kit.blocks) { ... }
RECURSIVE BlockLoop(_, _, _)
BlockLoop(blocks, toks, acc) ==
    IF Len(blocks) = 0 THEN acc
    ELSE Only({ BlockLoop(Tail(blocks), toks,
                    IF GT(bestForBlock.score, Zero)
                    THEN [matchedBlocks |-> Append(acc.matchedBlocks, bestForBlock),
                          kitScore |-> Plus(acc.kitScore, bestForBlock.score)]
                    ELSE acc)
                : bestForBlock \in {TokenLoop(toks, blocks[1], NoBest)} })

\* Mutation of KitLoop: a result is pushed for every kit.
RECURSIVE KitLoopEveryKit(_, _, _)
KitLoopEveryKit(ks, toks, results) ==
    IF Len(ks) = 0 THEN results
    ELSE Only({ KitLoopEveryKit(Tail(ks), toks,
                    Append(results,
                           [kit |-> ks[1],
                            matchedBlocks |-> SortMatched(<<>>, acc.matchedBlocks),
                            kitScore |-> acc.kitScore,
                            hitsCount |-> Len(acc.matchedBlocks)]))
                : acc \in {BlockLoop(ks[1].blocks, toks,
                                     [matchedBlocks |-> <<>>, kitScore |-> Zero])} })

\* for (const kit of state.kits) { ... }
RECURSIVE KitLoop(_, _, _)
KitLoop(ks, toks, results) ==
    IF Len(ks) = 0 THEN results
    ELSE Only({ KitLoop(Tail(ks), toks,
                    IF Len(acc.matchedBlocks) > 0
                    THEN Append(results,
                                [kit |-> ks[1],
                                 matchedBlocks |-> SortMatched(<<>>, acc.matchedBlocks),
                                 kitScore |-> acc.kitScore,
                                 hitsCount |-> Len(acc.matchedBlocks)])
                    ELSE results)
                : acc \in {BlockLoop(ks[1].blocks, toks,
                                     [matchedBlocks |-> <<>>, kitScore |-> Zero])} })

\* The cards render leaves in the grid and the state of the empty-state box.
render(ks, toks) ==
    IF Len(ks) = 0 THEN [grid |-> <<>>, empty |-> "noKits"]
    ELSE IF Len(toks) = 0 THEN [grid |-> <<>>, empty |-> "prompt"]
    ELSE Only({ IF Len(results) = 0 THEN [grid |-> <<>>, empty |-> "noMatch"]
                ELSE [grid |-> SortResults(<<>>, results), empty |-> "hidden"]
                : results \in {KitLoop(ks, toks, <<>>)} })

(***************************************************************************)
(* The page.  Init is the state init() leaves: the kits loaded (none when  *)
(* the fetch failed), no tokens, and the first render.                     *)
(***************************************************************************)
\* loadKits, when the fetch succeeds: parse order, then the sort by name.
loadKits(file) == SortKits(<<>>, file)

\* render tabulated over the catalogs and the token lists of the inputs
\* (those of the queries, and the empty list of init and of the clear
\* button), so that a step looks the cards up instead of computing them
\* again.
rendered ==
    [ks \in {file : file \in KitFiles},
     toks \in {tokenize(q) : q \in Queries} \cup {<<>>} |-> render(ks, toks)]

NoCall == [op |-> "none"]

Init ==
    /\ \E file \in KitFiles : kits = loadKits(file)
    /\ searchValue = <<>>
    /\ tokens = <<>>
    /\ grid = rendered[kits, tokens].grid
    /\ emptyState = rendered[kits, tokens].empty
    /\ call = NoCall

\* els.search 'input' listener
Input(q) ==
    /\ searchValue' = q
    /\ tokens' = tokenize(q)
    /\ grid' = rendered[kits, tokens'].grid
    /\ emptyState' = rendered[kits, tokens'].empty
    /\ UNCHANGED <<kits, call>>

\* els.clearSearch 'click' listener
ClearSearch ==
    /\ searchValue' = <<>>
    /\ tokens' = <<>>
    /\ grid' = rendered[kits, tokens'].grid
    /\ emptyState' = rendered[kits, tokens'].empty
    /\ UNCHANGED <<kits, call>>

\* els.reload 'click' listener, the fetch succeeding
Reload(file) ==
    /\ kits' = loadKits(file)
    /\ grid' = rendered[kits', tokens].grid
    /\ emptyState' = rendered[kits', tokens].empty
    /\ UNCHANGED <<searchValue, tokens, call>>

\* els.reload 'click' listener, the fetch failing: state.kits is kept
ReloadFailed ==
    /\ grid' = rendered[kits, tokens].grid
    /\ emptyState' = rendered[kits, tokens].empty
    /\ UNCHANGED <<kits, searchValue, tokens, call>>

Next ==
    \/ \E q \in Queries : Input(q)
    \/ ClearSearch
    \/ \E file \in KitFiles : Reload(file)
    \/ ReloadFailed

Spec == Init /\ [][Next]_vars

(***************************************************************************)
(* The helpers on their own: the arguments are drawn at Init and one step  *)
(* applies the function.  The page does not move.                          *)
(***************************************************************************)
PageIdle ==
    /\ kits = <<>>
    /\ searchValue = <<>>
    /\ tokens = <<>>
    /\ grid = <<>>
    /\ emptyState = "noKits"

Letters == {"a", "s"}

InitLevenshtein ==
    /\ PageIdle
    /\ \E a \in Strings(Letters, MaxStrLen), b \in Strings(Letters, MaxStrLen),
          c \in Strings(Letters, MaxStrLen) :
          call = [op |-> "levenshtein", a |-> a, b |-> b, c |-> c,
                  done |-> FALSE, ret |-> <<>>]

CallLevenshtein ==
    /\ call.op = "levenshtein"
    /\ ~call.done
    /\ call' = [call EXCEPT !.done = TRUE,
                            !.ret = [ab |-> levenshtein(call.a, call.b),
                                     ba |-> levenshtein(call.b, call.a),
                                     ac |-> levenshtein(call.a, call.c),
                                     bc |-> levenshtein(call.b, call.c),
                                     aa |-> levenshtein(call.a, call.a)]]
    /\ UNCHANGED <<kits, searchValue, tokens, grid, emptyState>>

SpecLevenshtein == InitLevenshtein /\ [][CallLevenshtein]_vars

InitWindow ==
    /\ PageIdle
    /\ \E text \in Strings(Letters \cup {" "}, MaxTextLen),
          token \in Strings(Letters, MaxTokenLen) :
          call = [op |-> "bestWindowSimilarity", text |-> text, token |-> token,
                  done |-> FALSE, ret |-> <<>>]

CallBestWindowSimilarity ==
    /\ call.op = "bestWindowSimilarity"
    /\ ~call.done
    /\ call' = [call EXCEPT !.done = TRUE,
                            !.ret = bestWindowSimilarity(call.text, call.token)]
    /\ UNCHANGED <<kits, searchValue, tokens, grid, emptyState>>

SpecWindow == InitWindow /\ [][CallBestWindowSimilarity]_vars

InitThreshold ==
    /\ PageIdle
    /\ \E len \in 1..MaxThresholdLen, longer \in 1..MaxThresholdLen :
          call = [op |-> "similarityThresholdFor", len |-> len, longer |-> longer,
                  done |-> FALSE, ret |-> <<>>]

CallSimilarityThresholdFor ==
    /\ call.op = "similarityThresholdFor"
    /\ ~call.done
    /\ call' = [call EXCEPT !.done = TRUE,
                            !.ret = <<similarityThresholdFor(call.len),
                                      similarityThresholdFor(call.longer)>>]
    /\ UNCHANGED <<kits, searchValue, tokens, grid, emptyState>>

SpecThreshold == InitThreshold /\ [][CallSimilarityThresholdFor]_vars

(***************************************************************************)
(* Vocabulary of the properties.                                           *)
(***************************************************************************)
Range(seq) == {seq[i] : i \in 1..Len(seq)}

Orderings(seq) ==
    {[i \in 1..Len(seq) |-> seq[f[i]]] :
        f \in {g \in [1..Len(seq) -> 1..Len(seq)] : Range(g) = 1..Len(seq)}}

\* Code unit of a lower-case letter.
CharCode(c) ==
    CASE c = "a" -> 97 [] c = "b" -> 98 [] c = "e" -> 101 [] c = "s" -> 115
      [] OTHER -> 0

\* x is not after y when both are compared letter by letter, case ignored.
RECURSIVE NotAfterIgnoringCase(_, _)
NotAfterIgnoringCase(x, y) ==
    IF Len(x) = 0 THEN TRUE
    ELSE IF Len(y) = 0 THEN FALSE
    ELSE IF CharCode(LowerChar(x[1])) # CharCode(LowerChar(y[1]))
         THEN CharCode(LowerChar(x[1])) < CharCode(LowerChar(y[1]))
    ELSE NotAfterIgnoringCase(Tail(x), Tail(y))

RECURSIVE SumScores(_)
SumScores(mbs) ==
    IF Len(mbs) = 0 THEN Zero
    ELSE Plus(SumScores(DropLast(mbs, 1)), mbs[Len(mbs)].score)

\* The block is in the matchedBlocks of a card of the kit.
Admitted(kit, block) ==
    \E r \in Range(grid) :
        r.kit = kit /\ \E mb \in Range(r.matchedBlocks) : mb.originalBlock = block

\* Some token, as tokenize produced it, clears the threshold of its length.
SomeTokenClears(block) ==
    \E T \in Range(tokens) :
        GE(matchTokenToBlock(T, block).score, similarityThresholdFor(Len(T)))

OnlySeparators(q) == \A i \in 1..Len(q) : q[i] \in {",", " "}

OccursAt(t, q, i) ==
    /\ i + Len(q) <= Len(t)
    /\ \A k \in 1..Len(q) : t[i + k] = q[k]

SortKey(r) == <<r.kitScore, r.hitsCount, r.kit.name>>

\* What a card shows of the ranking: the kit, its scores and the admitted
\* blocks with their scores.
RankingOf(g) ==
    [i \in 1..Len(g) |->
        [kit |-> g[i].kit, kitScore |-> g[i].kitScore, hitsCount |-> g[i].hitsCount,
         blocks |-> {<<mb.originalBlock, mb.score>> : mb \in Range(g[i].matchedBlocks)}]]

(***************************************************************************)
(* C1.  In the rendered list every result is followed by one with a lower  *)
(* kitScore, or the same kitScore and a lower hitsCount, or the same of    *)
(* both and a name that is not before it, case ignored.                    *)
(***************************************************************************)
C1_SortedResults ==
    \A i \in 1..(Len(grid) - 1) :
        LET r1 == grid[i]
            r2 == grid[i + 1]
        IN  \/ GT(r1.kitScore, r2.kitScore)
            \/ r1.kitScore = r2.kitScore /\ r1.hitsCount > r2.hitsCount
            \/ /\ r1.kitScore = r2.kitScore
               /\ r1.hitsCount = r2.hitsCount
               /\ NotAfterIgnoringCase(r1.kit.name, r2.kit.name)

\* Two kits that tie on a fuzzy score and on hits and differ in their
\* letters are rendered.
C1_Witness ==
    /\ Len(grid) = 2
    /\ grid[1].kitScore = grid[2].kitScore
    /\ GT(One, grid[1].kitScore)
    /\ grid[1].hitsCount = grid[2].hitsCount
    /\ ~NotAfterIgnoringCase(grid[2].kit.name, grid[1].kit.name)

(***************************************************************************)
(* C2.  A block of a loaded kit is admitted exactly when some token of     *)
(* tokenize(query) scores, by matchTokenToBlock, at least the threshold    *)
(* of that token's length.                                                 *)
(***************************************************************************)
C2_AdmittedIffTokenClears ==
    \A k \in Range(kits) : \A block \in Range(k.blocks) :
        Admitted(k, block) <=> SomeTokenClears(block)

(***************************************************************************)
(* C3.  Every rendered result has matched blocks, its kitScore is the sum  *)
(* of their scores and its hitsCount their number; a kit none of whose     *)
(* blocks is admitted, or without blocks, has no result.                   *)
(***************************************************************************)
C3_ResultInvariant ==
    /\ \A r \in Range(grid) :
          /\ Len(r.matchedBlocks) > 0
          /\ r.kitScore = SumScores(r.matchedBlocks)
          /\ r.hitsCount = Len(r.matchedBlocks)
          /\ Len(r.kit.blocks) > 0
    /\ \A k \in Range(kits) :
          (\A block \in Range(k.blocks) : ~Admitted(k, block))
              => \A r \in Range(grid) : r.kit # k

\* A result with two matched blocks of different scores, the second
\* block of the kit first, beside a kit without blocks.
C3_Witness ==
    /\ \E r \in Range(grid) :
          /\ r.hitsCount = 2
          /\ GT(r.matchedBlocks[1].score, r.matchedBlocks[2].score)
          /\ r.matchedBlocks[1].originalBlock = r.kit.blocks[2]
    /\ \E k \in Range(kits) : Len(k.blocks) = 0

(***************************************************************************)
(* C4.  A search text of spaces and commas only gives no tokens, and with  *)
(* no tokens nothing is rendered, whatever the catalog.                    *)
(***************************************************************************)
C4_NoTokensNoResults ==
    /\ OnlySeparators(searchValue) => tokens = <<>>
    /\ tokens = <<>> => grid = <<>>

\* Separators were typed over a loaded catalog whose kits matched the
\* previous search.
C4_Witness ==
    /\ Len(searchValue) > 1
    /\ OnlySeparators(searchValue)
    /\ Len(kits) > 0
    /\ tokens = <<>>
    /\ grid = <<>>
    /\ emptyState = "prompt"

(***************************************************************************)
(* C5.  When the normalized, singularized token q is not empty and occurs  *)
(* in the normalized, singularized candidate t, the result is score 1,     *)
(* exact, from the first occurrence of q to its end.                       *)
(***************************************************************************)
C5_ExactSubstring ==
    (call.op = "bestWindowSimilarity" /\ call.done) =>
        LET t == singularize(normalize(call.text))
            q == singularize(normalize(call.token))
        IN  \A i \in 0..Len(t) :
                (/\ Len(q) > 0
                 /\ OccursAt(t, q, i)
                 /\ \A j \in 0..(i - 1) : ~OccursAt(t, q, j))
                    => /\ call.ret.score = One
                       /\ call.ret.exact
                       /\ call.ret.start = i
                       /\ call.ret.end = i + Len(q)

\* The token is singularized and occurs twice in the candidate.
C5_Witness ==
    /\ call.op = "bestWindowSimilarity"
    /\ call.done
    /\ LET t == singularize(normalize(call.text))
           q == singularize(normalize(call.token))
       IN  /\ q # call.token
           /\ Len(q) > 0
           /\ \E i \in 0..Len(t), j \in 0..Len(t) :
                 /\ i < j
                 /\ OccursAt(t, q, i)
                 /\ OccursAt(t, q, j)
                 /\ call.ret.start = i

(***************************************************************************)
(* C6.  The threshold is 1.0 for lengths 1 and 2, 0.85 for 3, 0.78 for 4   *)
(* and 5, 0.72 for 6 to 8 and 0.68 from 9 on, and a longer token never     *)
(* has a higher threshold.                                                 *)
(***************************************************************************)
C6_ThresholdTable ==
    (call.op = "similarityThresholdFor" /\ call.done) =>
        LET hundredths ==
                CASE call.len \in {1, 2} -> 100
                  [] call.len = 3 -> 85
                  [] call.len \in {4, 5} -> 78
                  [] call.len \in {6, 7, 8} -> 72
                  [] OTHER -> 68
        IN  /\ call.ret[1].num * 100 = hundredths * call.ret[1].den
            /\ call.len <= call.longer => GE(call.ret[1], call.ret[2])

C6_Witness ==
    /\ call.op = "similarityThresholdFor"
    /\ call.done
    /\ call.len = 5
    /\ call.longer = 9
    /\ GT(call.ret[1], call.ret[2])

(***************************************************************************)
(* C7.  levenshtein is a metric: zero from a string to itself, symmetric,  *)
(* and within the triangle inequality.                                     *)
(***************************************************************************)
C7_LevenshteinMetric ==
    (call.op = "levenshtein" /\ call.done) =>
        /\ call.ret.aa = 0
        /\ call.ret.ab = call.ret.ba
        /\ call.ret.ac <= call.ret.ab + call.ret.bc

\* Three different strings, one of them empty, with the triangle tight.
C7_Witness ==
    /\ call.op = "levenshtein"
    /\ call.done
    /\ call.b = <<>>
    /\ Len(call.a) > 1
    /\ Len(call.c) > 1
    /\ call.a # call.c
    /\ call.ret.ac < call.ret.ab + call.ret.bc
    /\ call.ret.ab = call.ret.ba

(***************************************************************************)
(* C8.  As claimed: the rendered list is the same for every order in       *)
(* which the kits are evaluated.                                           *)
(***************************************************************************)
C8_SameListForEveryKitOrder ==
    \A p \in Orderings(kits) : rendered[p, tokens].grid = grid

(***************************************************************************)
(* C8, amended.  For every order in which the kits are evaluated the       *)
(* rendered list holds the same results and the same sort key (kitScore,   *)
(* hitsCount, name) at every position; a result stands elsewhere only     *)
(* where another result has its sort key.                                  *)
(***************************************************************************)
C8_SameKeysForEveryKitOrder ==
    \A p \in Orderings(kits) :
        LET g == rendered[p, tokens].grid
        IN  /\ Len(g) = Len(grid)
            /\ Range(g) = Range(grid)
            /\ \A i \in 1..Len(grid) :
                  /\ SortKey(g[i]) = SortKey(grid[i])
                  /\ g[i] # grid[i] =>
                        \E j \in 1..Len(grid) :
                            j # i /\ SortKey(grid[j]) = SortKey(grid[i])

\* Kits that tie on score and hits, with different names, loaded in the
\* order opposite to the rendered one.
C8_Witness ==
    /\ Len(kits) = 2
    /\ Len(grid) = 2
    /\ grid[1].kitScore = grid[2].kitScore
    /\ grid[1].hitsCount = grid[2].hitsCount
    /\ grid[1].kit.name # grid[2].kit.name
    /\ grid[1].kit = kits[2]
    /\ grid[2].kit = kits[1]

(***************************************************************************)
(* C9.  The ranking (kits, scores, hit counts, admitted blocks with their  *)
(* scores, order of the kits) is the same for every order of the tokens.   *)
(***************************************************************************)
C9_SameRankingForEveryTokenOrder ==
    \A p \in Orderings(tokens) :
        RankingOf(rendered[kits, p].grid) = RankingOf(grid)

\* Two tokens are admitted for the same block with different scores, the
\* lower one first.
C9_Witness ==
    /\ Len(tokens) >= 2
    /\ \E k \in Range(kits) : \E block \in Range(k.blocks) :
          LET s1 == TokenLoop(<<tokens[1]>>, block, NoBest).score
              s2 == TokenLoop(<<tokens[2]>>, block, NoBest).score
          IN  /\ GT(s1, Zero)
              /\ GT(s2, s1)
              /\ Admitted(k, block)

(***************************************************************************)
(* C10.  A span with a start lies inside the normalized, singularized      *)
(* candidate: 0 <= start < end <= len(t).                                  *)
(***************************************************************************)
C10_SpanInsideCandidate ==
    (call.op = "bestWindowSimilarity" /\ call.done /\ call.ret.start # -1) =>
        /\ 0 <= call.ret.start
        /\ call.ret.start < call.ret.end
        /\ call.ret.end <= Len(singularize(normalize(call.text)))

====
